---------------------------- MODULE Spec2Model ----------------------------
(***************************************************************************)
(* Model of RootfsQuota (lyon-v/ConQuotas): the project-ID pool            *)
(* (pkg/xfs/projectid.go), the state manager (pkg/xfs state file) and the  *)
(* event handler (pkg/handler/handle.go, pkg/handler/utils.go).            *)
(*                                                                         *)
(* The specifications share the variables:                                 *)
(*   Spec       the engine: Run loop, syncState, TaskCreate/TaskDelete     *)
(*              handlers, process restart, the runtime's containers,       *)
(*              while no shutdown signal arrives;                          *)
(*   CalmSpec   the engine when no external call fails;                    *)
(*   RunSpec    one run of the process from main to its end, with the      *)
(*              shutdown signal and TaskCreate events of any shape;        *)
(*              FairRunSpec adds the scheduling of the worker;             *)
(*   PoolSpec   a ProjectIDPool driven by arbitrary Allocate / Release /   *)
(*              MarkUsed calls, for every accepted kind of id range;       *)
(*   ConcSpec   a ProjectIDPool called by several goroutines at once;      *)
(*   StoreSpec  a StateManager driven by arbitrary AddEntry / RemoveEntry  *)
(*              / GetEntry calls and reloads of the state file.            *)
(***************************************************************************)
EXTENDS Integers, Sequences, FiniteSets

VARIABLES
    pc,       \* where the worker is: "run", "listen", "backoff", "fatal",
              \* "exit", "crashed"
    pool,     \* ProjectIDPool: [used, minID, maxID]
    entries,  \* StateManager.state.Entries: containerID -> Entry
    file,     \* the state file on disk: [kind, members]
    live,     \* containers the runtime currently holds
    fsTag,    \* XFS project id tagging each container's upperdir
    last,     \* the last operation: [op, c, err, calls]
    done,     \* q.ctx is cancelled: ctx.Done() is closed
    mutex,    \* ProjectIDPool.mutex: the thread holding it, "" when unlocked
    threads,  \* the pool call each concurrent caller is in: [op, arg, at, id, ret, ok]
    clients,  \* containerd clients the process has opened and not closed
    stream    \* containers whose TaskCreate event waits in the subscription

vars == <<pc, pool, entries, file, live, fsTag, last, done, mutex, threads, clients, stream>>

\* ------------------------------------------------------------------ bounds

\* Project ids are uint32. TLC's integers stop at 2^31 - 1, so the model gives
\* the id type IdBits bits: arithmetic on ids is modulo 2^IdBits, and the
\* largest id, MaxUint, plays the part of 2^32 - 1.
IdBits == 3
Uint32 == 2 ^ IdBits
MaxUint == Uint32 - 1

\* The configured project-id range of the engine specification.
MinID == 1
MaxID == 2

Containers == {"c1", "c2"}

\* PoolSpec: the widest id range tried, and how many ids may be in use before
\* the model stops calling Allocate.
MaxRange == 3
MaxInUse == 5

\* ListenSpec: how many containerd clients may be open before the model stops
\* opening another.
MaxClients == 3

\* cfg.Quota.DefaultSoft / DefaultHard: two distinguishable size strings.
DefaultSoft == "8g"
DefaultHard == "10g"

\* Outcomes of os.WriteFile (open with O_TRUNC, write, close): success, the
\* open fails (file untouched), the write fails after truncation with nothing
\* written, or with a prefix of the data written.
SaveOutcomes == {"ok", "unchanged", "truncated", "partial"}

\* The goroutines that call one ProjectIDPool concurrently.
Threads == {"t1", "t2", "t3"}

\* ------------------------------------------------------- call log records

\* One call a handler made: the function, the container or path it was about,
\* the project id passed or returned, and whether it succeeded.
Call(f, c, id, ok) ==
    [f |-> f, c |-> c, id |-> id, ok |-> ok, soft |-> "", hard |-> ""]

\* A call of SetProjectQuotaWithXFSQuota(id, soft, hard) made for container c.
\* A call of the state manager with the Entry passed or returned.
EntryCall(f, e, ok) ==
    [f |-> f, c |-> e.ContainerID, id |-> e.ProjectID, ok |-> ok, soft |-> "", hard |-> "",
     upperdir |-> e.Upperdir]

LimitCall(c, id, soft, hard, ok) ==
    [f |-> "SetLimit", c |-> c, id |-> id, ok |-> ok, soft |-> soft, hard |-> hard]

Op(op, c, err, calls) == [op |-> op, c |-> c, err |-> err, calls |-> calls]

\* The last step was none of the worker's operations on the pool or the state.
Idle == Op("", "", "", <<>>)

\* ------------------------------------------------------------ ProjectIDPool

\* A caller that is in no call of the pool.
NoCall == [op |-> "", arg |-> 0, at |-> "idle", id |-> 0, ret |-> 0, ok |-> FALSE]

IdleThreads == [t \in Threads |-> NoCall]

NewProjectIDPool(minID, maxID) == [used |-> {}, minID |-> minID, maxID |-> maxID]

\* The for loop of Allocate from loop variable id on: id <= p.maxID is the
\* loop test, id++ is uint32 increment.
RECURSIVE AllocScan(_, _)
AllocScan(p, id) ==
    IF ~(id <= p.maxID)
    THEN [ok |-> FALSE, id |-> 0, pool |-> p]
    ELSE IF id \notin p.used
         THEN [ok |-> TRUE, id |-> id, pool |-> [p EXCEPT !.used = @ \cup {id}]]
         ELSE AllocScan(p, (id + 1) % Uint32)

Allocate(p) == AllocScan(p, p.minID)

Release(p, id) == [p EXCEPT !.used = @ \ {id}]

MarkUsed(p, id) == [p EXCEPT !.used = @ \cup {id}]

\* LoadConfig's range check: both non-zero and min < max.
RangeAccepted(minID, maxID) ==
    ~(minID = 0 \/ maxID = 0 \/ minID >= maxID)

\* ------------------------------------------------------------- StateManager

NoEntry == [ContainerID |-> "", ProjectID |-> 0, Upperdir |-> ""]

EmptyMap == [c \in {} |-> NoEntry]

\* The upperdir of a container's snapshot.
UpperdirOf(c) == "/snapshots/" \o c \o "/fs"

NoFile == [kind |-> "absent", members |-> {}]
EmptyFile == [kind |-> "empty", members |-> {}]
PartialFile == [kind |-> "partial", members |-> {}]

\* A path with a character encoding/json escapes, and its JSON text.
AmpPath == "/o&r"
AmpText == "/o\\u0026r"

\* encoding/json writes a string with <, > and & as \u00XX escapes, and reads
\* the escapes back; the other characters of the model's strings stand for
\* themselves.
EncodeString(s) == IF s = AmpPath THEN AmpText ELSE s

\* Reading a JSON string as if it had no escapes.
DecodeStringRaw(t) == t

DecodeString(t) == IF t = AmpText THEN AmpPath ELSE t

\* json.MarshalIndent of State: one object member per map key, the Entry's
\* fields under their json names.
Marshal(m) ==
    [kind |-> "doc",
     members |-> {[key |-> EncodeString(c),
                   container_id |-> EncodeString(m[c].ContainerID),
                   project_id |-> m[c].ProjectID,
                   upperdir |-> EncodeString(m[c].Upperdir)] : c \in DOMAIN m}]

\* json.Unmarshal into State.Entries.
Unmarshal(members) ==
    [c \in {DecodeString(mb.key) : mb \in members} |->
        LET mb == CHOOSE x \in members : DecodeString(x.key) = c
        IN [ContainerID |-> DecodeString(mb.container_id),
            ProjectID |-> mb.project_id,
            Upperdir |-> DecodeString(mb.upperdir)]]

WriteFile(f, data, o) ==
    CASE o = "ok" -> data
      [] o = "unchanged" -> f
      [] o = "truncated" -> EmptyFile
      [] o = "partial" -> PartialFile

\* StateManager.save: the error and the file afterwards.
save(m, f, o) == [err |-> o # "ok", file |-> WriteFile(f, Marshal(m), o)]

\* StateManager.load into a manager whose map is m.
load(m, f) ==
    CASE f.kind = "absent" -> [err |-> "NotExist", entries |-> m]
      [] f.kind = "empty" \/ Cardinality(DOMAIN m) # 0 -> [err |-> "", entries |-> m]
      [] f.kind = "partial" -> [err |-> "Syntax", entries |-> m]
      [] f.kind = "doc" -> [err |-> "", entries |-> Unmarshal(f.members)]

\* NewStateManager as it would be if a file it cannot parse were replaced by
\* an empty store.
NewStateManagerResets(f, create) ==
    LET r == load(EmptyMap, f)
    IN IF r.err = "NotExist" /\ ~create
       THEN [ok |-> FALSE, entries |-> EmptyMap, file |-> f]
       ELSE IF r.err # ""
            THEN [ok |-> TRUE, entries |-> EmptyMap, file |-> EmptyFile]
            ELSE [ok |-> TRUE, entries |-> r.entries, file |-> f]

\* NewStateManager; create: whether os.MkdirAll and os.Create succeed when the
\* file does not exist.
NewStateManager(f, create) ==
    LET r == load(EmptyMap, f)
    IN IF r.err = "NotExist"
       THEN IF create
            THEN [ok |-> TRUE, entries |-> EmptyMap, file |-> EmptyFile]
            ELSE [ok |-> FALSE, entries |-> EmptyMap, file |-> f]
       ELSE IF r.err # ""
            THEN [ok |-> FALSE, entries |-> EmptyMap, file |-> f]
            ELSE [ok |-> TRUE, entries |-> r.entries, file |-> f]

\* AddEntry as it would be if it kept the Entry a container already has.
AddEntryKeepsOld(m, f, c, id, upperdir, o) ==
    LET e == [ContainerID |-> c, ProjectID |-> id, Upperdir |-> upperdir]
        m2 == [x \in DOMAIN m \cup {c} |-> IF x \in DOMAIN m THEN m[x] ELSE e]
        s == save(m2, f, o)
    IN [err |-> s.err, entries |-> m2, file |-> s.file]

AddEntry(m, f, c, id, upperdir, o) ==
    LET e == [ContainerID |-> c, ProjectID |-> id, Upperdir |-> upperdir]
        m2 == [x \in DOMAIN m \cup {c} |-> IF x = c THEN e ELSE m[x]]
        s == save(m2, f, o)
    IN [err |-> s.err, entries |-> m2, file |-> s.file]

RemoveEntry(m, f, c, o) ==
    LET m2 == [x \in DOMAIN m \ {c} |-> m[x]]
        s == save(m2, f, o)
    IN [err |-> s.err, entries |-> m2, file |-> s.file]

\* The outcomes of creating the state file that NewStateManager can meet: it
\* creates the file only when there is none.
CreateOutcomes(f) == IF f.kind = "absent" THEN BOOLEAN ELSE {TRUE}

GetEntry(m, c) ==
    IF c \in DOMAIN m
    THEN [entry |-> m[c], exists |-> TRUE]
    ELSE [entry |-> NoEntry, exists |-> FALSE]

\* ------------------------------------------------------------------ handler

\* What one handler leaves behind: the shared resources, the filesystem tags,
\* the returned error ("" is nil) and the calls it made, in order.
Res(p, m, f, fs, err, calls) ==
    [pool |-> p, entries |-> m, file |-> f, fsTag |-> fs, err |-> err, calls |-> calls]

\* handleTaskCreate as it would be if it called AddEntry before
\* SetProjectQuotaWithXFSQuota.
HandleTaskCreatePersistsFirst(p, m, f, fs, c, tag, limit, o) ==
    LET upperdir == UpperdirOf(c)
        a == Allocate(p)
        projID == a.id
        fs2 == [fs EXCEPT ![c] = projID]
        ad == AddEntry(m, f, c, projID, upperdir, o)
        k1 == <<Call("Allocate", c, projID, a.ok)>>
        k2 == Append(k1, Call("Tag", c, projID, tag))
        k3 == Append(k2, Call("AddEntry", c, projID, ~ad.err))
        k4 == Append(k3, LimitCall(c, projID, DefaultSoft, DefaultSoft, limit))
    IN IF ~a.ok THEN Res(p, m, f, fs, "NoProjectID", k1)
       ELSE IF ~tag
       THEN Res(Release(a.pool, projID), m, f, fs, "SetProjectID",
                Append(k2, Call("Release", c, projID, TRUE)))
       ELSE IF ad.err
       THEN Res(Release(a.pool, projID), ad.entries, ad.file, fs2, "AddEntry",
                Append(k3, Call("Release", c, projID, TRUE)))
       ELSE IF ~limit
       THEN Res(Release(a.pool, projID), ad.entries, ad.file, fs2, "SetProjectQuota",
                Append(k4, Call("Release", c, projID, TRUE)))
       ELSE Res(a.pool, ad.entries, ad.file, fs2, "", k4)

\* handleTaskCreate as it would be if the SetProjectQuota error path lacked
\* its projectIDPool.Release(projID).
HandleTaskCreateKeepsID(p, m, f, fs, c, tag, limit, o) ==
    LET upperdir == UpperdirOf(c)
        a == Allocate(p)
        projID == a.id
        fs2 == [fs EXCEPT ![c] = projID]
        ad == AddEntry(m, f, c, projID, upperdir, o)
        k1 == <<Call("Allocate", c, projID, a.ok)>>
        k2 == Append(k1, Call("Tag", c, projID, tag))
        k3 == Append(k2, LimitCall(c, projID, DefaultSoft, DefaultSoft, limit))
        k4 == Append(k3, Call("AddEntry", c, projID, ~ad.err))
    IN IF ~a.ok THEN Res(p, m, f, fs, "NoProjectID", k1)
       ELSE IF ~tag
       THEN Res(Release(a.pool, projID), m, f, fs, "SetProjectID",
                Append(k2, Call("Release", c, projID, TRUE)))
       ELSE IF ~limit
       THEN Res(a.pool, m, f, fs2, "SetProjectQuota", k3)
       ELSE IF ad.err
       THEN Res(Release(a.pool, projID), ad.entries, ad.file, fs2, "AddEntry",
                Append(k4, Call("Release", c, projID, TRUE)))
       ELSE Res(a.pool, ad.entries, ad.file, fs2, "", k4)

\* A mount option "name=value", or a flag "name" with an empty value.
Opt(name, value) == [name |-> name, value |-> value]

\* strings.TrimPrefix(opt, "upperdir=").
TrimUpperdir(opt) ==
    IF opt.name = "upperdir" THEN opt.value
    ELSE IF opt.value = "" THEN opt.name
    ELSE opt.name \o "=" \o opt.value

\* The first statement of handleTaskCreate, e.Rootfs[0].Options[1]: indexing
\* past the end of either slice panics.
EventUpperdir(rootfs) ==
    IF Len(rootfs) = 0 \/ Len(rootfs[1].Options) < 2
    THEN [panic |-> TRUE, path |-> ""]
    ELSE [panic |-> FALSE, path |-> TrimUpperdir(rootfs[1].Options[2])]

\* The Rootfs of the TaskCreate event of a container whose snapshot is an
\* overlay mount with the upperdir as its second option.
OverlayRootfs(c) ==
    <<[Type |-> "overlay",
       Options |-> <<Opt("workdir", "/snapshots/" \o c \o "/work"),
                     Opt("upperdir", UpperdirOf(c)),
                     Opt("lowerdir", "/snapshots/base/fs")>>]>>

\* Rootfs values of other shapes: none (a task created from a rootfs
\* directory), a mount without options, a mount with one option.
ShortRootfs ==
    {<<>>,
     <<[Type |-> "bind", Options |-> <<>>]>>,
     <<[Type |-> "bind", Options |-> <<Opt("rbind", "")>>]>>}

\* RFSQuota.handleTaskCreate for container c; tag, limit: whether xfs_quota
\* succeeds; o: the outcome of the state file write.
HandleTaskCreate(p, m, f, fs, c, tag, limit, o) ==
    LET upperdir == UpperdirOf(c)
        a == Allocate(p)
        projID == a.id
        fs2 == [fs EXCEPT ![c] = projID]
        ad == AddEntry(m, f, c, projID, upperdir, o)
        k1 == <<Call("Allocate", c, projID, a.ok)>>
        k2 == Append(k1, Call("Tag", c, projID, tag))
        k3 == Append(k2, LimitCall(c, projID, DefaultSoft, DefaultSoft, limit))
        k4 == Append(k3, Call("AddEntry", c, projID, ~ad.err))
    IN IF ~a.ok THEN Res(p, m, f, fs, "NoProjectID", k1)
       ELSE IF ~tag
       THEN Res(Release(a.pool, projID), m, f, fs, "SetProjectID",
                Append(k2, Call("Release", c, projID, TRUE)))
       ELSE IF ~limit
       THEN Res(Release(a.pool, projID), m, f, fs2, "SetProjectQuota",
                Append(k3, Call("Release", c, projID, TRUE)))
       ELSE IF ad.err
       THEN Res(Release(a.pool, projID), ad.entries, ad.file, fs2, "AddEntry",
                Append(k4, Call("Release", c, projID, TRUE)))
       ELSE Res(a.pool, ad.entries, ad.file, fs2, "", k4)

\* RFSQuota.restoreQuota.
RestoreQuota(p, m, f, fs, c, tag, limit, o) ==
    LET upperdir == UpperdirOf(c)
        a == Allocate(p)
        projID == a.id
        fs2 == [fs EXCEPT ![c] = projID]
        ad == AddEntry(m, f, c, projID, upperdir, o)
        k1 == <<Call("Allocate", c, projID, a.ok)>>
        k2 == Append(k1, Call("Tag", c, projID, tag))
        k3 == Append(k2, LimitCall(c, projID, DefaultSoft, DefaultHard, limit))
        k4 == Append(k3, Call("AddEntry", c, projID, ~ad.err))
    IN IF ~a.ok THEN Res(p, m, f, fs, "NoProjectID", k1)
       ELSE IF ~tag
       THEN Res(Release(a.pool, projID), m, f, fs, "SetProjectID",
                Append(k2, Call("Release", c, projID, TRUE)))
       ELSE IF ~limit
       THEN Res(Release(a.pool, projID), m, f, fs2, "SetProjectQuota",
                Append(k3, Call("Release", c, projID, TRUE)))
       ELSE Res(a.pool, ad.entries, ad.file, fs2,
                IF ad.err THEN "AddEntry" ELSE "", k4)

\* handler.GetProjectID: read is whether xfs_io succeeds and prints a projid.
GetProjectID(m, fs, c, read) ==
    LET id == IF read THEN fs[c] ELSE 0
        xfsErr == ~read
        g == GetEntry(m, c)
    IN IF ~g.exists /\ xfsErr THEN [id |-> id, err |-> TRUE]
       ELSE IF id # 0 /\ g.entry.ProjectID # id /\ g.exists
       THEN [id |-> id, err |-> TRUE]
       ELSE [id |-> id, err |-> FALSE]

\* RFSQuota.handleTaskDelete for container c; resolve: GetSnapshotUpperdir
\* succeeds; exists: os.Stat(upperdir) succeeds; read, limit, o as above.
HandleTaskDelete(p, m, f, fs, c, resolve, exists, read, limit, o) ==
    LET gp == GetProjectID(m, fs, c, read)
        projID == IF exists THEN gp.id ELSE 0
        rm == RemoveEntry(m, f, c, o)
        k1 == <<Call("Resolve", c, 0, resolve)>>
        k2 == IF exists THEN Append(k1, Call("GetProjectID", c, gp.id, ~gp.err)) ELSE k1
        k3 == Append(k2, LimitCall(c, projID, "0", "0", limit))
        k4 == Append(k3, Call("RemoveEntry", c, 0, ~rm.err))
    IN IF ~resolve THEN Res(p, m, f, fs, "GetSnapshotUpperdir", k1)
       ELSE IF exists /\ gp.err THEN Res(p, m, f, fs, "GetProjectID", k2)
       ELSE IF ~limit THEN Res(p, m, f, fs, "SetProjectQuota", k3)
       ELSE IF rm.err THEN Res(p, rm.entries, rm.file, fs, "RemoveEntry", k4)
       ELSE Res(Release(p, projID), rm.entries, rm.file, fs, "",
                Append(k4, Call("Release", c, projID, TRUE)))

\* What the environment does to one container of a syncState pass.
SyncEnv(resolve, exists, tag, limit, o) ==
    [resolve |-> resolve, exists |-> exists, tag |-> tag, limit |-> limit, save |-> o]

\* One case per first external step that goes wrong, and the case none does.
SyncEnvs ==
    {SyncEnv(FALSE, TRUE, TRUE, TRUE, "ok"),
     SyncEnv(TRUE, FALSE, TRUE, TRUE, "ok"),
     SyncEnv(TRUE, TRUE, FALSE, TRUE, "ok"),
     SyncEnv(TRUE, TRUE, TRUE, FALSE, "ok")}
    \cup {SyncEnv(TRUE, TRUE, TRUE, TRUE, o) : o \in SaveOutcomes}

\* What the environment does to one creation event.
CreateEnvs == {e \in SyncEnvs : e.resolve /\ e.exists}

\* What the environment does to one deletion event: the upperdir resolves or
\* not, exists or not, xfs_io reads its project id or fails, and then one case
\* per first later step that goes wrong, and the case none does.
DeleteEnv(resolve, exists, read, limit, o) ==
    [resolve |-> resolve, exists |-> exists, read |-> read, limit |-> limit, save |-> o]

DeleteEnvs ==
    {DeleteEnv(FALSE, TRUE, TRUE, TRUE, "ok")}
    \cup {DeleteEnv(TRUE, FALSE, TRUE, TRUE, o) : o \in SaveOutcomes}
    \cup {DeleteEnv(TRUE, FALSE, TRUE, FALSE, "ok")}
    \cup {DeleteEnv(TRUE, TRUE, read, TRUE, o) : read \in BOOLEAN, o \in SaveOutcomes}
    \cup {DeleteEnv(TRUE, TRUE, read, FALSE, "ok") : read \in BOOLEAN}

\* The body of syncState's loop for container c, onto the result r so far.
SyncOne(r, c, e) ==
    LET g == GetEntry(r.entries, c)
        k1 == Append(r.calls, Call("Resolve", c, 0, e.resolve))
        k2 == Append(k1, Call("GetEntry", c, g.entry.ProjectID, g.exists))
        rq == RestoreQuota(r.pool, r.entries, r.file, r.fsTag, c, e.tag, e.limit, e.save)
    IN IF ~e.resolve THEN [r EXCEPT !.calls = k1]
       ELSE IF ~e.exists THEN [r EXCEPT !.calls = k1]
       ELSE IF ~g.exists
       THEN Res(rq.pool, rq.entries, rq.file, rq.fsTag, "", k2 \o rq.calls)
       ELSE [r EXCEPT !.calls = k2]

\* syncState's loop over the containers the runtime listed, from index i.
RECURSIVE SyncLoop(_, _, _, _)
SyncLoop(r, containers, env, i) ==
    IF i > Len(containers) THEN r
    ELSE SyncLoop(SyncOne(r, containers[i], env[containers[i]]), containers, env, i + 1)

\* RFSQuota.syncState; list: whether client.Containers succeeds.
SyncState(p, m, f, fs, list, containers, env) ==
    IF ~list THEN Res(p, m, f, fs, "Containers", <<>>)
    ELSE SyncLoop(Res(p, m, f, fs, "", <<>>), containers, env, 1)

\* The orders in which the runtime may list the set S of containers.
Orders(S) ==
    {q \in [1..Cardinality(S) -> S] : \A i, j \in 1..Cardinality(S) : q[i] = q[j] => i = j}

\* ----------------------------------------------------------------- engine

Init ==
    /\ pc = "run"
    /\ pool = NewProjectIDPool(MinID, MaxID)
    /\ entries = EmptyMap
    /\ file = EmptyFile
    /\ live = {}
    /\ fsTag = [c \in Containers |-> 0]
    /\ last = Op("NewRFSQuota", "", "", <<>>)
    /\ done = FALSE
    /\ mutex = ""
    /\ threads = IdleThreads
    /\ clients = 0
    /\ stream = {}

Apply(r) ==
    /\ pool' = r.pool
    /\ entries' = r.entries
    /\ file' = r.file
    /\ fsTag' = r.fsTag

\* The select at the top of Run's loop as it would be without its
\* case <-q.ctx.Done().
RunIgnoresDone(d) == TRUE

\* The select at the top of Run's loop takes its default branch, which calls
\* startEventListener, only when ctx.Done() is not ready.
RunSelectsDefault(d) == ~d

\* startEventListener up to the subscription: containerd.New succeeds, then
\* syncState; its error is only logged.
Connect(Lists, Envs) ==
    /\ pc = "run"
    /\ RunSelectsDefault(done)
    /\ \E list \in Lists, containers \in Orders(live), env \in [live -> Envs] :
          LET r == SyncState(pool, entries, file, fsTag, list, containers, env)
          IN /\ Apply(r)
             /\ last' = Op("syncState", "", r.err, r.calls)
    /\ pc' = "listen"
    /\ UNCHANGED live
    /\ UNCHANGED <<done, mutex, threads, clients, stream>>

\* containerd.New fails: Run logs and waits.
ConnectFail ==
    /\ pc = "run"
    /\ RunSelectsDefault(done)
    /\ pc' = "backoff"
    /\ last' = Idle
    /\ UNCHANGED <<pool, entries, file, live, fsTag>>
    /\ UNCHANGED <<done, mutex, threads, clients, stream>>

\* time.After(5 * time.Second) fires.
BackoffElapsed ==
    /\ pc = "backoff"
    /\ pc' = "run"
    /\ last' = Idle
    /\ UNCHANGED <<pool, entries, file, live, fsTag>>
    /\ UNCHANGED <<done, mutex, threads, clients, stream>>

\* Run as it would be if it returned the listener's error instead of waiting
\* to retry.
StreamErrorIsFatal ==
    /\ pc = "listen"
    /\ pc' = "fatal"
    /\ last' = Idle
    /\ UNCHANGED <<pool, entries, file, live, fsTag, done, mutex, threads, clients, stream>>

\* errCh delivers an error: startEventListener returns it.
StreamError ==
    /\ pc = "listen"
    /\ pc' = "backoff"
    /\ last' = Idle
    /\ UNCHANGED <<pool, entries, file, live, fsTag>>
    /\ UNCHANGED <<done, mutex, threads, clients, stream>>

\* A TaskCreate event of a container the runtime holds, with the overlay
\* mount of its snapshot as Rootfs.
TaskCreate(c, Envs) ==
    /\ pc = "listen"
    /\ c \in live
    /\ EventUpperdir(OverlayRootfs(c)) = [panic |-> FALSE, path |-> UpperdirOf(c)]
    /\ \E e \in Envs :
          LET r == HandleTaskCreate(pool, entries, file, fsTag, c, e.tag, e.limit, e.save)
          IN /\ Apply(r)
             /\ last' = Op("TaskCreate", c, r.err, r.calls)
    /\ UNCHANGED <<pc, live>>
    /\ UNCHANGED <<done, mutex, threads, clients, stream>>

\* A TaskCreate event whose Rootfs is too short for e.Rootfs[0].Options[1]:
\* handleTaskCreate panics in the worker, which nothing recovers, and the
\* process dies.
TaskCreatePanics(c, rootfs) ==
    /\ pc = "listen"
    /\ c \in live
    /\ EventUpperdir(rootfs).panic
    /\ pc' = "crashed"
    /\ last' = Op("TaskCreate", c, "panic", <<>>)
    /\ UNCHANGED <<pool, entries, file, live, fsTag, done, mutex, threads, clients, stream>>

\* A TaskDelete event; the runtime resolves the upperdir only of a container
\* it still holds.
TaskDelete(c, Envs) ==
    /\ pc = "listen"
    /\ \E e \in Envs :
          /\ e.resolve => c \in live
          /\ LET r == HandleTaskDelete(pool, entries, file, fsTag, c,
                                       e.resolve, e.exists, e.read, e.limit, e.save)
             IN /\ Apply(r)
                /\ last' = Op("TaskDelete", c, r.err, r.calls)
    /\ UNCHANGED <<pc, live>>
    /\ UNCHANGED <<done, mutex, threads, clients, stream>>

\* The process is restarted: NewRFSQuota builds the state manager from the
\* state file and an empty pool.
Restart ==
    /\ \E create \in CreateOutcomes(file) :
          LET sm == NewStateManager(file, create)
          IN /\ entries' = sm.entries
             /\ file' = sm.file
             /\ pc' = IF sm.ok THEN "run" ELSE "fatal"
             /\ last' = Op("NewRFSQuota", "", IF sm.ok THEN "" ELSE "NewStateManager", <<>>)
    /\ pool' = NewProjectIDPool(MinID, MaxID)
    /\ UNCHANGED <<live, fsTag>>
    /\ done' = FALSE
    /\ UNCHANGED <<mutex, threads, clients, stream>>

\* main calls NewRFSQuota and then Run.
Start ==
    /\ pc = "boot"
    /\ Restart

\* handleSignals: SIGINT or SIGTERM arrives while Run is running, and
\* q.cancel() closes ctx.Done().
Cancel ==
    /\ pc \in {"run", "listen", "backoff"}
    /\ ~done
    /\ done' = TRUE
    /\ last' = Idle
    /\ UNCHANGED <<pc, pool, entries, file, live, fsTag, mutex, threads, clients, stream>>

\* RFSQuota.cleanup: q.client, the client opened last, is closed if there is
\* one.
Closed(n) == IF n > 0 THEN n - 1 ELSE n

\* The worker takes a case <-q.ctx.Done(): at the top of Run's loop, in the
\* event loop of startEventListener, or while waiting to retry; Run returns
\* nil and its deferred cleanup runs.
Exit ==
    /\ pc \in {"run", "listen", "backoff"}
    /\ done
    /\ pc' = "exit"
    /\ clients' = Closed(clients)
    /\ last' = Idle
    /\ UNCHANGED <<pool, entries, file, live, fsTag, done, mutex, threads, stream>>

\* The runtime creates a container, with a fresh snapshot that carries no
\* project id.
ContainerStart(c) ==
    /\ c \notin live
    /\ live' = live \cup {c}
    /\ last' = Idle
    /\ UNCHANGED <<pc, pool, entries, file, fsTag>>
    /\ UNCHANGED <<done, mutex, threads, clients, stream>>

\* The runtime removes a container and its snapshot, and with the upperdir
\* the project id that tagged it.
ContainerRemove(c) ==
    /\ c \in live
    /\ live' = live \ {c}
    /\ fsTag' = [fsTag EXCEPT ![c] = 0]
    /\ last' = Idle
    /\ UNCHANGED <<pc, pool, entries, file>>
    /\ UNCHANGED <<done, mutex, threads, clients, stream>>

Next ==
    \/ Connect(BOOLEAN, SyncEnvs)
    \/ ConnectFail
    \/ BackoffElapsed
    \/ StreamError
    \/ \E c \in Containers : TaskCreate(c, CreateEnvs)
    \/ \E c \in Containers : TaskDelete(c, DeleteEnvs)
    \/ Restart
    \/ \E c \in Containers : ContainerStart(c)
    \/ \E c \in Containers : ContainerRemove(c)

Spec == Init /\ [][Next]_vars

\* The engine when no external call fails: xfs_quota, xfs_io and the state
\* file write always succeed, and the runtime lists its containers and
\* resolves the upperdir of every container it holds.  An upperdir may still
\* be missing, connections still fail and break, the process still restarts.
CalmSyncEnvs == {e \in SyncEnvs : e.resolve /\ e.tag /\ e.limit /\ e.save = "ok"}

CalmCreateEnvs == {e \in CreateEnvs : e.tag /\ e.limit /\ e.save = "ok"}

CalmDeleteEnvs(c) ==
    {e \in DeleteEnvs : (e.resolve <=> c \in live) /\ e.read /\ e.limit /\ e.save = "ok"}

CalmNext ==
    \/ Connect({TRUE}, CalmSyncEnvs)
    \/ ConnectFail
    \/ BackoffElapsed
    \/ StreamError
    \/ \E c \in Containers : TaskCreate(c, CalmCreateEnvs)
    \/ \E c \in Containers : TaskDelete(c, CalmDeleteEnvs(c))
    \/ Restart
    \/ \E c \in Containers : ContainerStart(c)
    \/ \E c \in Containers : ContainerRemove(c)

CalmSpec == Init /\ [][CalmNext]_vars

\* One run of the process, from main's call of NewRFSQuota until Run returns
\* or the process dies, with the shutdown signal and with events of any
\* shape.  The state file main finds is absent, empty, cut short, or a
\* document written by an earlier run.
BootFiles ==
    {NoFile, EmptyFile, PartialFile}
    \cup {Marshal([c \in {"c1"} |->
                    [ContainerID |-> c, ProjectID |-> MinID, Upperdir |-> UpperdirOf(c)]])}

RunInit ==
    /\ pc = "boot"
    /\ pool = NewProjectIDPool(MinID, MaxID)
    /\ entries = EmptyMap
    /\ file \in BootFiles
    /\ live = {}
    /\ fsTag = [c \in Containers |-> 0]
    /\ last = Idle
    /\ done = FALSE
    /\ mutex = ""
    /\ threads = IdleThreads
    /\ clients = 0
    /\ stream = {}

\* In this specification the state file write succeeds; the runtime and
\* xfs_quota fail as in Spec.
RunSyncEnvs == {e \in SyncEnvs : e.save = "ok"}

RunCreateEnvs == {e \in CreateEnvs : e.save = "ok"}

RunDeleteEnvs == {e \in DeleteEnvs : e.save = "ok"}

RunNext ==
    \/ Start
    \/ Connect(BOOLEAN, RunSyncEnvs)
    \/ ConnectFail
    \/ BackoffElapsed
    \/ StreamError
    \/ \E c \in Containers : TaskCreate(c, RunCreateEnvs)
    \/ \E c \in Containers, rootfs \in ShortRootfs : TaskCreatePanics(c, rootfs)
    \/ \E c \in Containers : TaskDelete(c, RunDeleteEnvs)
    \/ Cancel
    \/ Exit
    \/ \E c \in Containers : ContainerStart(c)
    \/ \E c \in Containers : ContainerRemove(c)

RunSpec == RunInit /\ [][RunNext]_vars

\* The worker goroutine is scheduled, and the timer of time.After fires: a
\* step of the worker that stays possible is taken.
FairRunSpec ==
    /\ RunSpec
    /\ WF_vars(Start)
    /\ WF_vars(Connect(BOOLEAN, RunSyncEnvs) \/ ConnectFail)
    /\ WF_vars(BackoffElapsed)
    /\ WF_vars(Exit)

\* ------------------------------------------- startEventListener, step by step

\* One run of the worker with startEventListener taken statement by
\* statement, the containerd clients it opens, and the TaskCreate events the
\* runtime publishes: an event reaches the worker only if the subscription
\* exists when the task is created.  No external call fails except the
\* connection and the event stream.
ListenInit == Init

\* containerd.New succeeds and q.client = client replaces the client of the
\* connection before, which nothing has closed.
ListenerNew ==
    /\ pc = "run"
    /\ RunSelectsDefault(done)
    /\ clients < MaxClients
    /\ clients' = clients + 1
    /\ pc' = "connected"
    /\ last' = Idle
    /\ UNCHANGED <<pool, entries, file, live, fsTag, done, mutex, threads, stream>>

\* q.syncState() over the containers the runtime holds at this moment.
ListenerSync ==
    /\ pc = "connected"
    /\ \E containers \in Orders(live), env \in [live -> {SyncEnv(TRUE, TRUE, TRUE, TRUE, "ok")}] :
          LET r == SyncState(pool, entries, file, fsTag, TRUE, containers, env)
          IN /\ Apply(r)
             /\ last' = Op("syncState", "", r.err, r.calls)
    /\ pc' = "synced"
    /\ UNCHANGED <<live, done, mutex, threads, clients, stream>>

\* client.Subscribe(q.ctx): the stream carries the events published from now
\* on.
ListenerSubscribe ==
    /\ pc = "synced"
    /\ pc' = "listen"
    /\ stream' = {}
    /\ last' = Idle
    /\ UNCHANGED <<pool, entries, file, live, fsTag, done, mutex, threads, clients>>

\* The event loop receives the TaskCreate event of c and handles it.
ListenerEvent(c) ==
    /\ pc = "listen"
    /\ c \in stream
    /\ LET r == HandleTaskCreate(pool, entries, file, fsTag, c, TRUE, TRUE, "ok")
       IN /\ Apply(r)
          /\ last' = Op("TaskCreate", c, r.err, r.calls)
    /\ stream' = stream \ {c}
    /\ UNCHANGED <<pc, live, done, mutex, threads, clients>>

\* The runtime creates container c and its task, and publishes TaskCreate to
\* the subscriptions that exist.
TaskStarts(c) ==
    /\ c \notin live
    /\ live' = live \cup {c}
    /\ stream' = IF pc = "listen" THEN stream \cup {c} ELSE stream
    /\ last' = Idle
    /\ UNCHANGED <<pc, pool, entries, file, fsTag, done, mutex, threads, clients>>

ListenNext ==
    \/ ListenerNew
    \/ ConnectFail
    \/ ListenerSync
    \/ ListenerSubscribe
    \/ \E c \in Containers : ListenerEvent(c)
    \/ StreamError
    \/ BackoffElapsed
    \/ Cancel
    \/ Exit
    \/ \E c \in Containers : TaskStarts(c)

ListenSpec == ListenInit /\ [][ListenNext]_vars

\* ENABLED <<ListenerSync>>_vars: syncState has no guard but the worker's
\* position, and the step moves the worker on.
ListenerSyncEnabled == pc = "connected"

\* The worker goroutine is scheduled and the timer fires; the stream error,
\* the failure to connect, the signal and the runtime's tasks are not owed.
\* The third conjunct is WF_vars(ListenerSync) with its ENABLED written out.
FairListenSpec ==
    /\ ListenSpec
    /\ WF_vars(ListenerNew)
    /\ ([]<>(~ListenerSyncEnabled) \/ []<><<ListenerSync>>_vars)
    /\ WF_vars(ListenerSubscribe)
    /\ WF_vars(\E c \in Containers : ListenerEvent(c))
    /\ WF_vars(BackoffElapsed)
    /\ WF_vars(Exit)

\* -------------------------------------------------------------- pool alone

\* The ranges LoadConfig accepts, up to MaxRange ids wide, anywhere in the id
\* type: at its bottom, in the middle, and ending at the largest id.
PoolRanges ==
    {r \in (0..MaxUint) \X (0..MaxUint) :
        RangeAccepted(r[1], r[2]) /\ r[2] - r[1] < MaxRange}

\* Arguments tried for Release and MarkUsed: the ids of the range, its two
\* neighbours, 0 and the largest id.
PoolArgs(p) ==
    (p.minID..p.maxID) \cup {0, p.minID - 1, (p.maxID + 1) % Uint32, MaxUint}

PoolInit ==
    /\ pc = "pool"
    /\ \E r \in PoolRanges : pool = NewProjectIDPool(r[1], r[2])
    /\ entries = EmptyMap
    /\ file = EmptyFile
    /\ live = {}
    /\ fsTag = [c \in Containers |-> 0]
    /\ last = Op("NewProjectIDPool", "", "", <<>>)
    /\ done = FALSE
    /\ mutex = ""
    /\ threads = IdleThreads
    /\ clients = 0
    /\ stream = {}

PoolAllocate ==
    /\ Cardinality(pool.used) < MaxInUse
    /\ LET a == Allocate(pool)
       IN /\ pool' = a.pool
          /\ last' = Op("Allocate", "", IF a.ok THEN "" ELSE "NoProjectID",
                        <<Call("Allocate", "", a.id, a.ok)>>)
    /\ UNCHANGED <<pc, entries, file, live, fsTag>>
    /\ UNCHANGED <<done, mutex, threads, clients, stream>>

PoolRelease(id) ==
    /\ pool' = Release(pool, id)
    /\ last' = Op("Release", "", "", <<Call("Release", "", id, TRUE)>>)
    /\ UNCHANGED <<pc, entries, file, live, fsTag>>
    /\ UNCHANGED <<done, mutex, threads, clients, stream>>

PoolMarkUsed(id) ==
    /\ Cardinality(pool.used) < MaxInUse
    /\ pool' = MarkUsed(pool, id)
    /\ last' = Op("MarkUsed", "", "", <<Call("MarkUsed", "", id, TRUE)>>)
    /\ UNCHANGED <<pc, entries, file, live, fsTag>>
    /\ UNCHANGED <<done, mutex, threads, clients, stream>>

PoolNext ==
    \/ PoolAllocate
    \/ \E id \in PoolArgs(pool) : PoolRelease(id)
    \/ \E id \in PoolArgs(pool) : PoolMarkUsed(id)

PoolSpec == PoolInit /\ [][PoolNext]_vars

\* ------------------------------------------------- pool, concurrent callers

\* A call of the pool that has been made and waits for p.mutex.Lock().
PoolCall(op, arg) == [op |-> op, arg |-> arg, at |-> "lock", id |-> 0, ret |-> 0, ok |-> FALSE]

\* The calls the concurrent callers make: Allocate, and Release and MarkUsed
\* of the ids of the range.
PoolCalls ==
    {PoolCall("Allocate", 0)}
    \cup {PoolCall(op, id) : op \in {"Release", "MarkUsed"}, id \in MinID..MaxID}

\* p.mutex.Lock() as it would be if it never waited.
MutexLockNoWait(mu, t) == [ok |-> TRUE, mu |-> t]

\* p.mutex.Lock() by thread t: it returns only when the mutex is unlocked.
MutexLock(mu, t) == [ok |-> mu = "", mu |-> t]

ConcInit ==
    /\ pc = "conc"
    /\ pool = NewProjectIDPool(MinID, MaxID)
    /\ entries = EmptyMap
    /\ file = EmptyFile
    /\ live = {}
    /\ fsTag = [c \in Containers |-> 0]
    /\ last = Idle
    /\ done = FALSE
    /\ mutex = ""
    /\ threads \in [Threads -> PoolCalls]
    /\ clients = 0
    /\ stream = {}

\* What a step of a concurrent caller leaves alone.
ConcRest == <<pc, entries, file, live, fsTag, last, done, clients, stream>>

\* t returns from p.mutex.Lock() and reaches the body of its call; Allocate's
\* loop variable starts at minID.
ThreadLock(t) ==
    /\ threads[t].at = "lock"
    /\ MutexLock(mutex, t).ok
    /\ mutex' = MutexLock(mutex, t).mu
    /\ threads' = [threads EXCEPT ![t].at = IF threads[t].op = "Allocate" THEN "test" ELSE "body",
                                   ![t].id = pool.minID]
    /\ UNCHANGED <<pool, ConcRest>>

\* Allocate's loop test and the read of p.used[id]: a used id moves the loop
\* on, a free one leads to the write, the end of the range to the error.
ThreadTest(t) ==
    /\ threads[t].at = "test"
    /\ LET id == threads[t].id
       IN threads' =
            IF ~(id <= pool.maxID)
            THEN [threads EXCEPT ![t].at = "unlock", ![t].ret = 0, ![t].ok = FALSE]
            ELSE IF id \notin pool.used
                 THEN [threads EXCEPT ![t].at = "set"]
                 ELSE [threads EXCEPT ![t].id = (id + 1) % Uint32]
    /\ UNCHANGED <<pool, mutex, ConcRest>>

\* Allocate's p.used[id] = true and return id, nil.
ThreadSet(t) ==
    /\ threads[t].at = "set"
    /\ pool' = [pool EXCEPT !.used = @ \cup {threads[t].id}]
    /\ threads' = [threads EXCEPT ![t].at = "unlock", ![t].ret = threads[t].id, ![t].ok = TRUE]
    /\ UNCHANGED <<mutex, ConcRest>>

\* The body of Release or MarkUsed.
ThreadBody(t) ==
    /\ threads[t].at = "body"
    /\ pool' = IF threads[t].op = "Release"
               THEN Release(pool, threads[t].arg)
               ELSE MarkUsed(pool, threads[t].arg)
    /\ threads' = [threads EXCEPT ![t].at = "unlock", ![t].ok = TRUE]
    /\ UNCHANGED <<mutex, ConcRest>>

\* The deferred p.mutex.Unlock(); the call returns.
ThreadUnlock(t) ==
    /\ threads[t].at = "unlock"
    /\ mutex' = ""
    /\ threads' = [threads EXCEPT ![t].at = "done"]
    /\ UNCHANGED <<pool, ConcRest>>

ConcNext ==
    \/ \E t \in Threads : ThreadLock(t)
    \/ \E t \in Threads : ThreadTest(t)
    \/ \E t \in Threads : ThreadSet(t)
    \/ \E t \in Threads : ThreadBody(t)
    \/ \E t \in Threads : ThreadUnlock(t)

ConcSpec == ConcInit /\ [][ConcNext]_vars

\* ------------------------------------------------------------- store alone

\* Project ids and paths handed to AddEntry.
StoreIDs == {MinID, MaxID}
StorePaths(c) == {UpperdirOf(c), "/other", AmpPath}

StoreInit ==
    /\ pc = "store"
    /\ pool = NewProjectIDPool(MinID, MaxID)
    /\ entries = EmptyMap
    /\ file = EmptyFile
    /\ live = {}
    /\ fsTag = [c \in Containers |-> 0]
    /\ last = Op("NewStateManager", "", "", <<>>)
    /\ done = FALSE
    /\ mutex = ""
    /\ threads = IdleThreads
    /\ clients = 0
    /\ stream = {}

StoreAdd(c, id, path, o) ==
    /\ pc = "store"
    /\ LET r == AddEntry(entries, file, c, id, path, o)
       IN /\ entries' = r.entries
          /\ file' = r.file
          /\ last' = Op("AddEntry", c, IF r.err THEN "save" ELSE "",
                        <<EntryCall("AddEntry",
                                    [ContainerID |-> c, ProjectID |-> id, Upperdir |-> path],
                                    ~r.err)>>)
    /\ UNCHANGED <<pc, pool, live, fsTag>>
    /\ UNCHANGED <<done, mutex, threads, clients, stream>>

StoreRemove(c, o) ==
    /\ pc = "store"
    /\ LET r == RemoveEntry(entries, file, c, o)
       IN /\ entries' = r.entries
          /\ file' = r.file
          /\ last' = Op("RemoveEntry", c, IF r.err THEN "save" ELSE "",
                        <<Call("RemoveEntry", c, 0, ~r.err)>>)
    /\ UNCHANGED <<pc, pool, live, fsTag>>
    /\ UNCHANGED <<done, mutex, threads, clients, stream>>

StoreGet(c) ==
    /\ pc = "store"
    /\ LET g == GetEntry(entries, c)
       IN last' = Op("GetEntry", c, "", <<EntryCall("GetEntry", g.entry, g.exists)>>)
    /\ UNCHANGED <<pc, pool, entries, file, live, fsTag>>
    /\ UNCHANGED <<done, mutex, threads, clients, stream>>

\* A new StateManager is built from the state file; a failure leaves the
\* process without a manager.
StoreReload ==
    /\ \E create \in CreateOutcomes(file) :
          LET sm == NewStateManager(file, create)
          IN /\ entries' = sm.entries
             /\ file' = sm.file
             /\ pc' = IF sm.ok THEN "store" ELSE "fatal"
             /\ last' = Op("NewStateManager", "", IF sm.ok THEN "" ELSE "load", <<>>)
    /\ UNCHANGED <<pool, live, fsTag>>
    /\ UNCHANGED <<done, mutex, threads, clients, stream>>

StoreNext ==
    \/ \E c \in Containers, id \in StoreIDs, o \in SaveOutcomes :
          \E path \in StorePaths(c) : StoreAdd(c, id, path, o)
    \/ \E c \in Containers, o \in SaveOutcomes : StoreRemove(c, o)
    \/ \E c \in Containers : StoreGet(c)
    \/ StoreReload

StoreSpec == StoreInit /\ [][StoreNext]_vars

\* ------------------------------------------------------------------ claims

IDRange(p) == {i \in 0..MaxUint : p.minID <= i /\ i <= p.maxID}

FreeIDs(p) == IDRange(p) \ p.used

MinOf(S) == CHOOSE x \in S : \A y \in S : x <= y

\* The indices of the calls named f in a call log.
CallsOf(calls, f) == {i \in DOMAIN calls : calls[i].f = f}

\* C1: in every reachable state of the engine, no two Entries of the state
\* manager carry the same project id.
EntriesPairwiseDistinct ==
    \A c1, c2 \in DOMAIN entries :
        c1 # c2 => entries[c1].ProjectID # entries[c2].ProjectID

\* C2: whenever the worker is in its event loop, the project id of every Entry
\* of the state manager is in the pool's in-use set.
ListeningPoolCoversEntries ==
    pc = "listen" => \A c \in DOMAIN entries : entries[c].ProjectID \in pool.used

\* C3: a syncState pass calls MarkUsed with the Entry's project id, and does
\* not call Allocate, for every listed container whose upperdir exists and
\* that has an Entry.
SyncMarksKeptEntries ==
    [][last'.op = "syncState" =>
        \A i \in CallsOf(last'.calls, "GetEntry") :
            LET g == last'.calls[i]
            IN g.ok =>
                /\ \E j \in CallsOf(last'.calls, "MarkUsed") :
                      last'.calls[j].id = g.id
                /\ \A j \in CallsOf(last'.calls, "Allocate") :
                      last'.calls[j].c # g.c]_vars

\* C4: in a syncState pass that starts with an empty pool, no Allocate call
\* returns a project id recorded in the Entry of a live container.
SyncAllocatesNoPersistedID ==
    [][(last'.op = "syncState" /\ pool.used = {}) =>
        \A j \in CallsOf(last'.calls, "Allocate") :
            last'.calls[j].ok =>
                \A c \in live \cap DOMAIN entries :
                    entries[c].ProjectID # last'.calls[j].id]_vars

\* The state a successful creation sequence leaves for container c: an Entry,
\* its project id in use, and the upperdir tagged with it.
Created(c) ==
    /\ c \in DOMAIN entries
    /\ entries[c].ProjectID \in pool.used
    /\ fsTag[c] = entries[c].ProjectID

\* C5: a successful TaskCreate for a container without an Entry adds exactly
\* one Entry and one in-use project id; a TaskDelete for a created container
\* that runs to completion removes the Entry and frees that project id.
CreateDeleteRoundTrip ==
    [][/\ (last'.op = "TaskCreate" /\ last'.err = "" /\ last'.c \notin DOMAIN entries) =>
            /\ DOMAIN entries' = DOMAIN entries \cup {last'.c}
            /\ \A c \in DOMAIN entries : entries'[c] = entries[c]
            /\ Cardinality(pool'.used) = Cardinality(pool.used) + 1
            /\ pool.used \subseteq pool'.used
            /\ entries'[last'.c].ProjectID \in pool'.used \ pool.used
       /\ (last'.op = "TaskDelete" /\ last'.err = "" /\ Created(last'.c)) =>
            /\ last'.c \notin DOMAIN entries'
            /\ entries[last'.c].ProjectID \notin pool'.used
            /\ Allocate(pool').ok]_vars

\* C6: when Tag succeeds and SetLimit then fails in a creation sequence, the
\* allocated project id is released and no Entry of that container is added
\* to the state manager or to the state file.  For a TaskCreate event the pool,
\* the map and the file are as before the event; in a syncState pass, where
\* other containers are handled too, the id is released at once, stays free
\* unless a later Allocate of the pass takes it, and the container has no Entry
\* and no new member in the file.
SetLimitFailureReleases ==
    [][/\ (last'.op = "TaskCreate" /\ last'.err = "SetProjectQuota") =>
            /\ pool' = pool
            /\ entries' = entries
            /\ file' = file
       /\ last'.op = "syncState" =>
            \A i \in CallsOf(last'.calls, "SetLimit") :
                LET s == last'.calls[i]
                IN ~s.ok =>
                    /\ i < Len(last'.calls)
                    /\ last'.calls[i + 1] = Call("Release", s.c, s.id, TRUE)
                    /\ s.id \in pool'.used =>
                          \E j \in CallsOf(last'.calls, "Allocate") :
                              j > i /\ last'.calls[j].id = s.id /\ last'.calls[j].ok
                    /\ s.c \notin DOMAIN entries'
                    /\ {mb \in file'.members : mb.key = s.c}
                          \subseteq {mb \in file.members : mb.key = s.c}]_vars

\* C6 happens: a TaskCreate whose Tag succeeded and whose SetLimit failed,
\* while another project id is in use.
SetLimitFailureSeen ==
    /\ last.op = "TaskCreate"
    /\ last.err = "SetProjectQuota"
    /\ Len(last.calls) = 4
    /\ last.calls[2].f = "Tag" /\ last.calls[2].ok
    /\ last.calls[3].f = "SetLimit" /\ ~last.calls[3].ok
    /\ last.calls[4].f = "Release"
    /\ pool.used # {}
    /\ last.calls[1].id \notin pool.used

\* C7: a successful Allocate returns the least id of [minID, maxID] that is
\* not in use.
AllocateReturnsMinFree ==
    [][(last'.op = "Allocate" /\ last'.err = "") =>
        /\ FreeIDs(pool) # {}
        /\ last'.calls[1].id = MinOf(FreeIDs(pool))
        /\ pool'.used = pool.used \cup {last'.calls[1].id}]_vars

\* C8: the pool's in-use set is a subset of [minID, maxID].
UsedWithinRange == pool.used \subseteq IDRange(pool)

\* C9: when every id of [minID, maxID] is in use, Allocate fails, returns no
\* id and leaves the in-use set unchanged.
ExhaustedAllocateFails ==
    [][(last'.op = "Allocate" /\ IDRange(pool) \subseteq pool.used) =>
        /\ last'.err # ""
        /\ ~last'.calls[1].ok
        /\ pool'.used = pool.used]_vars

\* C10: when the state file write inside AddEntry or RemoveEntry fails, the
\* call reports the failure and the map is what it was before the call.
FailedSaveRollsBack ==
    [][(last'.op \in {"AddEntry", "RemoveEntry"} /\ ~last'.calls[1].ok) =>
        /\ last'.err # ""
        /\ entries' = entries
        /\ file'.kind = "doc" => Unmarshal(file'.members) = entries']_vars

EntryOf(k) == [ContainerID |-> k.c, ProjectID |-> k.id, Upperdir |-> k.upperdir]

\* C12: after a successful AddEntry, GetEntry of that container finds an Entry
\* equal to the one added, whatever Entry the container had; after RemoveEntry,
\* GetEntry of that container finds nothing; GetEntry changes neither the map
\* nor the file.
PutGetRemoveGet ==
    [][/\ (last'.op = "AddEntry" /\ last'.err = "") =>
            GetEntry(entries', last'.c) =
                [entry |-> EntryOf(last'.calls[1]), exists |-> TRUE]
       /\ last'.op = "RemoveEntry" => ~GetEntry(entries', last'.c).exists
       /\ last'.op = "GetEntry" =>
            /\ entries' = entries
            /\ file' = file
            /\ (last.op = "AddEntry" /\ last.err = "" /\ last.c = last'.c) =>
                  /\ last'.calls[1].ok
                  /\ EntryOf(last'.calls[1]) = EntryOf(last.calls[1])
            /\ (last.op = "RemoveEntry" /\ last.c = last'.c) =>
                  ~last'.calls[1].ok]_vars

\* C12 happens: GetEntry found the Entry of a container while the other
\* container has an Entry too, with another project id and path.
GetFoundEntry ==
    /\ last.op = "GetEntry"
    /\ last.calls[1].ok
    /\ last.calls[1].id = MaxID
    /\ last.calls[1].upperdir = "/other"
    /\ \E c \in DOMAIN entries :
          c # last.c /\ entries[c].ProjectID = MinID /\ entries[c].Upperdir = UpperdirOf(c)

\* Release of an id that is not in use leaves the in-use set as it is: the
\* pool's half of C13.
ReleaseOfFreeIDIsNoOp ==
    [][(last'.op = "Release" /\ last'.calls[1].id \notin pool.used) =>
        pool' = pool]_vars

\* C13: RemoveEntry of a container that has no Entry (a second RemoveEntry, or
\* one of a container never stored) returns no error and leaves the map as it
\* is.
RemoveOfAbsentIsNoOp ==
    [][(last'.op = "RemoveEntry" /\ last'.c \notin DOMAIN entries) =>
        /\ last'.err = ""
        /\ entries' = entries]_vars

\* One call of the pool made alone: the pool and what the call returns.
SeqCall(p, call) ==
    CASE call.op = "Allocate" ->
            LET a == Allocate(p) IN [pool |-> a.pool, ret |-> a.id, ok |-> a.ok]
      [] call.op = "Release" -> [pool |-> Release(p, call.arg), ret |-> 0, ok |-> TRUE]
      [] call.op = "MarkUsed" -> [pool |-> MarkUsed(p, call.arg), ret |-> 0, ok |-> TRUE]

\* The threads' calls made one after the other from index i of order on pool
\* p give the pool fin and return what the threads hold.
RECURSIVE SeqRunMatches(_, _, _, _)
SeqRunMatches(p, order, i, fin) ==
    IF i > Len(order) THEN p = fin
    ELSE LET r == SeqCall(p, threads[order[i]])
         IN /\ r.ret = threads[order[i]].ret
            /\ r.ok = threads[order[i]].ok
            /\ SeqRunMatches(r.pool, order, i + 1, fin)

AllReturned == \A t \in Threads : threads[t].at = "done"

\* C15: when all concurrent calls of a pool have returned, the pool and every
\* returned value are those of the same calls made one after the other in some
\* order; and, no Release being among the calls, no two Allocate calls
\* returned the same id.
ConcurrentCallsLinearize ==
    /\ AllReturned =>
          \E order \in Orders(Threads) :
              SeqRunMatches(NewProjectIDPool(MinID, MaxID), order, 1, pool)
    /\ \A t1, t2 \in Threads :
          (/\ t1 # t2
           /\ threads[t1].op = "Allocate" /\ threads[t1].at = "done" /\ threads[t1].ok
           /\ threads[t2].op = "Allocate" /\ threads[t2].at = "done" /\ threads[t2].ok
           /\ \A t \in Threads : threads[t].op # "Release")
          => threads[t1].ret # threads[t2].ret

\* C15 happens: three concurrent Allocate calls on a pool of two ids have
\* returned; two hold the two ids and the third failed.
ThreeAllocatesReturned ==
    /\ AllReturned
    /\ \A t \in Threads : threads[t].op = "Allocate"
    /\ {threads[t].ret : t \in {x \in Threads : threads[x].ok}} = pool.used
    /\ Cardinality({t \in Threads : threads[t].ok}) = 2
    /\ Cardinality(pool.used) = 2

\* The worker is gone: Run returned, or the process died.
Stopped == pc \in {"exit", "crashed"}

\* C14: NewRFSQuota fails when the state file is present but cannot be parsed,
\* leaving the file as it is, and then the worker makes no step: no
\* connection, no event, no change of the pool, the map or the file.  When the
\* file is absent and can be created, the map starts empty and the file
\* exists, empty.
CorruptStateIsFatal ==
    [][/\ (last'.op = "NewRFSQuota" /\ file.kind = "partial") =>
            /\ pc' = "fatal"
            /\ last'.err # ""
            /\ file' = file
       /\ (last'.op = "NewRFSQuota" /\ file.kind = "absent" /\ last'.err = "") =>
            /\ pc' = "run"
            /\ entries' = EmptyMap
            /\ file' = EmptyFile
       /\ (last'.op = "NewRFSQuota" /\ file.kind = "absent" /\ last'.err # "") =>
            /\ pc' = "fatal"
            /\ file' = file
       /\ pc = "fatal" =>
            /\ pc' = "fatal"
            /\ last'.op = ""
            /\ UNCHANGED <<pool, entries, file, fsTag>>]_vars

\* C14 happens: NewRFSQuota failed on a state file cut short, and containers
\* have started since.
FatalOnCorruptFile ==
    /\ pc = "fatal"
    /\ file.kind = "partial"
    /\ last.op = "NewRFSQuota" /\ last.err = "NewStateManager"
    /\ live # {}

CancelledWorkerStops ==
    /\ done ~> Stopped
    /\ [][(done /\ pc = "run") => pc' \notin {"listen", "backoff"}]_vars

\* C17 happens: Run has returned after a cancellation.
WorkerExited ==
    /\ pc = "exit"
    /\ done
    /\ DOMAIN entries # {}

\* C18: handling an event, whatever it carries and whether it fails or not,
\* leaves the worker in the event loop; the worker leaves the event loop only
\* on a stream error or on cancellation.
EventNeverStopsEngine ==
    [][/\ last'.op \in {"TaskCreate", "TaskDelete"} => pc' = "listen"
       /\ (pc = "listen" /\ pc' # "listen") =>
            (pc' = "backoff" \/ (done /\ pc' = "exit"))]_vars

\* In a call log, the AddEntry call at index k comes after a successful Tag
\* and, after that, a successful SetLimit of the same container and id.
EnforcedBefore(calls, k) ==
    \E i, j \in DOMAIN calls :
        /\ i < j /\ j < k
        /\ calls[i].f = "Tag" /\ calls[i].ok
        /\ calls[i].c = calls[k].c /\ calls[i].id = calls[k].id
        /\ calls[j].f = "SetLimit" /\ calls[j].ok
        /\ calls[j].c = calls[k].c /\ calls[j].id = calls[k].id

\* C19: every Entry that a step adds to the map, or changes in it, is either
\* read from the state file by NewRFSQuota or passed to an AddEntry call that
\* the same creation sequence made after its Tag and its SetLimit had
\* succeeded for that container and id; and every member a step adds to the
\* state file is an Entry of the map.  So no Entry reaches the state file
\* before its enforcement was applied, wherever the process stops.
EnforcementPrecedesPersistence ==
    [][/\ \A c \in DOMAIN entries' :
            (c \notin DOMAIN entries \/ entries'[c] # entries[c]) =>
                \/ /\ last'.op = "NewRFSQuota"
                   /\ file.kind = "doc"
                   /\ entries'[c] = Unmarshal(file.members)[c]
                \/ \E k \in CallsOf(last'.calls, "AddEntry") :
                      /\ last'.calls[k].c = c
                      /\ last'.calls[k].id = entries'[c].ProjectID
                      /\ entries'[c].Upperdir = UpperdirOf(c)
                      /\ EnforcedBefore(last'.calls, k)
       /\ \A mb \in file'.members \ file.members :
            mb \in Marshal(entries').members]_vars

\* C19 happens: a TaskCreate event has tagged the upperdir, set the limit and
\* written the Entry of a second container to the state file.
EntryWrittenAfterEnforcement ==
    /\ last.op = "TaskCreate" /\ last.err = ""
    /\ \E mb \in file.members : mb.key = last.c /\ mb.project_id = entries[last.c].ProjectID
    /\ fsTag[last.c] = entries[last.c].ProjectID
    /\ Cardinality(file.members) = 2

\* C20: when AddEntry fails in a creation sequence, after Tag and SetLimit
\* succeeded, the allocated project id is still in the pool's in-use set when
\* the sequence ends, and the sequence made no Release call.
FailedPutKeepsID ==
    [][last'.op \in {"TaskCreate", "syncState"} =>
        \A k \in CallsOf(last'.calls, "AddEntry") :
            ~last'.calls[k].ok =>
                /\ \A j \in CallsOf(last'.calls, "Release") :
                      last'.calls[j].id # last'.calls[k].id
                /\ last'.calls[k].id \in pool'.used]_vars

\* C21: when the clearing SetLimit(id, "0", "0") of a TaskDelete fails, the
\* handler still removes the container's Entry and releases the project id.
ClearFailureStillCleans ==
    [][(/\ last'.op = "TaskDelete"
        /\ last'.c \in DOMAIN entries
        /\ \E i \in CallsOf(last'.calls, "SetLimit") : ~last'.calls[i].ok) =>
        /\ last'.c \notin DOMAIN entries'
        /\ CallsOf(last'.calls, "RemoveEntry") # {}
        /\ CallsOf(last'.calls, "Release") # {}]_vars

\* C22: in a TaskDelete whose upperdir exists and whose container has an
\* Entry, when xfs_io fails, reads no project id (0) or reads the id of the
\* Entry, GetProjectID reports no error and every SetLimit and Release call of
\* the handler names the id of the Entry.
DeleteClearsRecordedID ==
    [][(/\ last'.op = "TaskDelete"
        /\ last'.c \in DOMAIN entries
        /\ \E i \in CallsOf(last'.calls, "GetProjectID") :
              last'.calls[i].id \in {0, entries[last'.c].ProjectID}) =>
        /\ \A i \in CallsOf(last'.calls, "GetProjectID") : last'.calls[i].ok
        /\ CallsOf(last'.calls, "SetLimit") # {}
        /\ \A i \in CallsOf(last'.calls, "SetLimit") \cup CallsOf(last'.calls, "Release") :
              last'.calls[i].id = entries[last'.c].ProjectID]_vars

\* C23: a TaskDelete whose upperdir resolves but is no longer on disk, for a
\* container that has an Entry, removes the Entry and releases the project id
\* of that Entry.
MissingPathStillReleases ==
    [][(/\ last'.op = "TaskDelete"
        /\ last'.c \in DOMAIN entries
        /\ last'.calls[1].ok
        /\ CallsOf(last'.calls, "GetProjectID") = {}) =>
        /\ last'.c \notin DOMAIN entries'
        /\ \E i \in CallsOf(last'.calls, "Release") :
              last'.calls[i].id = entries[last'.c].ProjectID]_vars

\* C24: every SetLimit call of a creation sequence, in a TaskCreate event and
\* in a syncState pass alike, passes cfg.Quota.DefaultSoft as the soft limit
\* and cfg.Quota.DefaultHard as the hard limit.
CreationAppliesConfiguredLimits ==
    [][last'.op \in {"TaskCreate", "syncState"} =>
        \A i \in CallsOf(last'.calls, "SetLimit") :
            /\ last'.calls[i].soft = DefaultSoft
            /\ last'.calls[i].hard = DefaultHard]_vars

\* C25: a TaskCreate event for a container that already has an Entry leaves
\* that Entry as it is and adds no project id to the in-use set.
ExistingEntryKept ==
    [][(last'.op = "TaskCreate" /\ last'.c \in DOMAIN entries) =>
        /\ last'.c \in DOMAIN entries'
        /\ entries'[last'.c] = entries[last'.c]
        /\ pool'.used \subseteq pool.used]_vars

\* C27: every SetLimit and every Release call made by a TaskCreate event, a
\* TaskDelete event or a syncState pass names a project id of
\* [MinID, MaxID]; in particular never 0.
CallsNameIDsInRange ==
    [][last'.op \in {"TaskCreate", "TaskDelete", "syncState"} =>
        \A i \in CallsOf(last'.calls, "SetLimit") \cup CallsOf(last'.calls, "Release") :
            last'.calls[i].id \in MinID..MaxID]_vars

\* C26: the process never has more than one containerd client open.
AtMostOneClient == clients <= 1

\* C28: a container that is live while the worker is connected (the client
\* is open and syncState has not run yet, has run, or the event loop runs)
\* gets an Entry, unless the stream breaks or the worker is cancelled first.
LiveContainerGetsEntry ==
    \A c \in Containers :
        (c \in live /\ pc \in {"connected", "synced", "listen"})
            ~> (c \in DOMAIN entries \/ pc = "backoff" \/ done)

=============================================================================
